---- MODULE Spec2Model ----
(***************************************************************************)
(* A model of genie-wrapper: the public compress/decompress functions of   *)
(* genie_wrapper/api.py, the runner selector _get_runner, and the          *)
(* containerized backend DockerGenieRunner of core/docker_runner.py.       *)
(*                                                                         *)
(* One call is in progress at a time (the wrapper is synchronous).  pc is  *)
(* the position of the call in progress:                                   *)
(*   "idle"    no call in progress                                         *)
(*   "resolve" inside DockerGenieRunner.compress/decompress, before        *)
(*             _resolve_paths                                              *)
(*   "mkdir"   paths resolved, before output_path.parent.mkdir             *)
(*   "build"   directory ensured, before cmd is built and handed to        *)
(*             _run_command                                                *)
(*   "running" subprocess.run has been called, the process has not exited  *)
(*   "native"  inside the native backend's compress/decompress             *)
(*   "done"    the call has returned or raised; result holds the outcome   *)
(*                                                                         *)
(* Texts that are searched or trimmed (captured stdout and stderr) are     *)
(* sequences of one-character strings; paths are sequences of path         *)
(* segments; command lines are sequences of strings.                       *)
(***************************************************************************)
EXTENDS Integers, Sequences, FiniteSets, TLC

VARIABLES
    pc,           \* position of the call in progress
    call,         \* the caller's arguments of the call in progress
    created,      \* backend kinds instantiated by _get_runner in this call
    backendCalls, \* backend methods called by the public function in this call
    args,         \* parameters of the runner method being executed
    selfImage,    \* self.image of the runner executing the call
    paths,        \* local `paths` of compress/decompress (resolved paths)
    bind_dir,     \* local `bind_dir` of compress/decompress
    invoked,      \* command lines handed to subprocess.run in this call
    made,         \* directories created in this call
    proc,         \* exit status and captured streams of the process run
    backendResult, \* outcome of the runner method
    result,       \* outcome of the call, as the caller sees it
    dirs,         \* directories that exist on the host file system
    image,        \* image of the long-lived DockerGenieRunner instance
    raisedBefore, \* an earlier call has raised
    calls         \* number of calls started so far

vars == <<pc, call, created, backendCalls, args, selfImage, paths, bind_dir,
          invoked, made, proc, backendResult, result, dirs, image,
          raisedBefore, calls>>

(***************************************************************************)
(* Bounds                                                                  *)
(***************************************************************************)
MaxCalls == 2

(***************************************************************************)
(* Path arguments.  A path argument is None, or a string: absolute or      *)
(* relative, a sequence of segments (the empty string has none).  It is    *)
(* the tuple <<is a string, is absolute, segments>>.                       *)
(***************************************************************************)
None == << FALSE, FALSE, <<>> >>

Str(abs, segs) == << TRUE, abs, segs >>

IsStr(p) == p[1]

IsAbs(p) == p[2]

Segs(p) == p[3]

Empty == Str(FALSE, <<>>)

\* The working directory of the calling process.
Cwd == <<"data">>

\* "/data/in.fastq", "out.mgb", "../ref/hg.fa", "new/out.mgb",
\* "./new/in.fastq"
PathArgs ==
    { Str(TRUE,  <<"data", "in.fastq">>),
      Str(FALSE, <<"out.mgb">>),
      Str(FALSE, <<"..", "ref", "hg.fa">>),
      Str(FALSE, <<"new", "out.mgb">>),
      Str(FALSE, <<".", "new", "in.fastq">>) }

RefArgs == PathArgs \cup {None, Empty}

\* Directories that exist before the first call.
InitialDirs == { <<>>, <<"data">>, <<"ref">> }

Images == { "muefab/genie:latest", "genie:local" }

Modes == { "native", "docker", "Native", "DOCKER", "podman", "" }

(***************************************************************************)
(* Captured texts.                                                         *)
(***************************************************************************)
Stdouts ==
    { <<>>,
      <<"o", "k", "\n">>,
      <<" ", "U", "s", "a", "g", "e", "\n">> }

Stderrs ==
    { <<>>,
      <<"e", "r", "r", "o", "r">>,
      <<"E", "R", "R", "O", "R", ":", " ", "x">>,
      <<"[", "E", "R", "R", "O", "R", "]">> }

ExitCodes == { 0, 1 }

\* A finished process: <<exit status, captured stdout, captured stderr>>.
\* NoProc stands for no process having exited.
NoProc == << -1, <<>>, <<>> >>

ExitStatus(p) == p[1]

Stdout(p) == p[2]

Stderr(p) == p[3]

\* The marker searched for in the captured error stream.
ERROR == <<"E", "R", "R", "O", "R">>

\* Python's `needle in hay` on strings.
Contains(needle, hay) ==
    \E i \in 1..(Len(hay) - Len(needle) + 1) :
        SubSeq(hay, i, i + Len(needle) - 1) = needle

Whitespace == { " ", "\n", "\t" }

RECURSIVE LStrip(_)
LStrip(t) ==
    IF t # <<>> /\ Head(t) \in Whitespace THEN LStrip(Tail(t)) ELSE t

RECURSIVE RStrip(_)
RStrip(t) ==
    IF t # <<>> /\ t[Len(t)] \in Whitespace
    THEN RStrip(SubSeq(t, 1, Len(t) - 1))
    ELSE t

\* str.strip()
Strip(t) == RStrip(LStrip(t))

(***************************************************************************)
(* pathlib                                                                 *)
(***************************************************************************)
\* Truth value of a path argument: None and "" are falsy.
Truthy(p) == IsStr(p) /\ (IsAbs(p) \/ Segs(p) # <<>>)

RECURSIVE Norm(_, _)
Norm(acc, rest) ==
    IF rest = <<>> THEN acc
    ELSE LET h == Head(rest) IN
         IF h = "." THEN Norm(acc, Tail(rest))
         ELSE IF h = ".."
              THEN Norm(IF acc = <<>> THEN <<>>
                        ELSE SubSeq(acc, 1, Len(acc) - 1), Tail(rest))
              ELSE Norm(Append(acc, h), Tail(rest))

\* Path(p).resolve(): absolute, without "." and ".." segments.
Resolve(p) == Norm(<<>>, IF IsAbs(p) THEN Segs(p) ELSE Cwd \o Segs(p))

\* Path.parent (the root is its own parent)
Parent(s) == IF s = <<>> THEN <<>> ELSE SubSeq(s, 1, Len(s) - 1)

\* Path.name (the root has the empty name)
Name(s) == IF s = <<>> THEN "" ELSE s[Len(s)]

RECURSIVE Join(_)
Join(s) == IF s = <<>> THEN "" ELSE "/" \o Head(s) \o Join(Tail(s))

\* str(path) of an absolute path
Render(s) == IF s = <<>> THEN "/" ELSE Join(s)

\* A mkdir that creates nothing.
MkdirParentsSkipped(d, existing) == existing

\* Path.mkdir(parents=True, exist_ok=True)
MkdirParents(d, existing) ==
    existing \cup { SubSeq(d, 1, k) : k \in 0..Len(d) }

(***************************************************************************)
(* Outcomes of a call: the tuple <<kind, value>>, where kind is "none",     *)
(* "return" or the class of the exception raised, and value the text       *)
(* returned or the exception's message.                                    *)
(***************************************************************************)
NoResult == << "none", <<>> >>

Returns(text) == << "return", text >>

Raises(kind, message) == << kind, message >>

Kind(r) == r[1]

Value(r) == r[2]

(***************************************************************************)
(* genie_wrapper/api.py                                                    *)
(***************************************************************************)
DEFAULT_MODE == "docker"

\* The image a DockerGenieRunner() built without arguments runs.
DefaultImage == "muefab/genie:latest"

\* The f-string of _get_runner's ValueError, as its literal and formatted parts.
UnknownModeMessage(mode) ==
    << "Unknown mode '", mode, "'. Must be '", "native", "' or '", "docker", "'." >>

RunnerKind(r) == r[1]

RunnerError(r) == r[2]

\* A selector that folds the case of the mode before comparing.
GetRunnerIgnoringCase(mode) ==
    IF mode \in {"native", "Native"}
    THEN << "native", NoResult >>
    ELSE IF mode \in {"docker", "DOCKER"}
         THEN << "docker", NoResult >>
         ELSE << "none", Raises("ValueError", UnknownModeMessage(mode)) >>

\* _get_runner(mode): <<kind of backend instantiated, error raised>>.
GetRunner(mode) ==
    IF mode = "native"
    THEN << "native", NoResult >>
    ELSE IF mode = "docker"
         THEN << "docker", NoResult >>
         ELSE << "none", Raises("ValueError", UnknownModeMessage(mode)) >>

\* The parameters of a runner method: the tuple
\* <<method, input_file, output_file, reference, low_latency>>.
Method(a) == a[1]

InputFile(a) == a[2]

OutputFile(a) == a[3]

Reference(a) == a[4]

LowLatency(a) == a[5]

\* A delegation that drops the caller's low_latency.
CompressArgsDroppingLowLatency(input_path, output_path, reference_path, low_latency) ==
    << "compress", input_path, output_path, reference_path, FALSE >>

\* runner.compress(input_path, output_path, reference=reference_path,
\*                 low_latency=low_latency)
CompressArgs(input_path, output_path, reference_path, low_latency) ==
    << "compress", input_path, output_path, reference_path, low_latency >>

\* runner.decompress(input_path, output_path, reference=reference_path)
DecompressArgs(input_path, output_path, reference_path) ==
    << "decompress", input_path, output_path, reference_path, FALSE >>

\* runner.version()
VersionArgs ==
    << "version", None, None, None, FALSE >>

\* return runner.compress(...) / return runner.decompress(...): the public
\* function hands on what the runner method returned or raised.
ApiReturn(r) == r

NoArgs ==
    << "none", None, None, None, FALSE >>

\* The caller's arguments: the tuple <<entry, op, input_path, output_path,
\* reference_path, low_latency, mode given, mode>>.
Call(entry, op, input_path, output_path, reference_path, low_latency, modeGiven, mode) ==
    << entry, op, input_path, output_path, reference_path, low_latency,
       modeGiven, mode >>

Entry(c) == c[1]

Op(c) == c[2]

InputPath(c) == c[3]

OutputPath(c) == c[4]

ReferencePath(c) == c[5]

LowLatencyArg(c) == c[6]

ModeGiven(c) == c[7]

Mode(c) == c[8]

NoCall == Call("none", "none", None, None, None, FALSE, FALSE, "")

(***************************************************************************)
(* genie_wrapper/core/docker_runner.py                                     *)
(***************************************************************************)
PathLayoutMessage ==
    << "All files must be in the same directory for Docker binding." >>

Ok(r) == r[1]

Resolved(r) == r[2]

ParentDirs(r) == r[3]

\* A validation that compares the parents of input and output only.
ResolvePathsIgnoringReference(ps) ==
    LET given       == SelectSeq(ps, Truthy)
        resolved    == [i \in 1..Len(given) |-> Resolve(given[i])]
        parent_dirs == { Parent(resolved[i]) : i \in 1..Len(resolved) \cap {1, 2} }
    IN  << Cardinality(parent_dirs) = 1, resolved, parent_dirs >>

\* _resolve_paths(*paths): <<no error is raised, resolved, parent_dirs>>.
ResolvePaths(ps) ==
    LET given       == SelectSeq(ps, Truthy)
        resolved    == [i \in 1..Len(given) |-> Resolve(given[i])]
        parent_dirs == { Parent(resolved[i]) : i \in 1..Len(resolved) }
    IN  << Cardinality(parent_dirs) = 1, resolved, parent_dirs >>

\* if low_latency: cmd.append("--low-latency")
LowLatencyFlag(low_latency) ==
    IF low_latency THEN << "--low-latency" >> ELSE << >>

\* ref_path = paths[2] if reference else None;
\* if ref_path: cmd.extend(["-r", f"/work/{ref_path.name}"])
ReferenceFlag(ps, reference) ==
    IF Truthy(reference) THEN << "-r", "/work/" \o Name(ps[3]) >> ELSE << >>

\* A compress command line without the forced-overwrite flag.
CompressCmdWithoutForce(img, ps, bind, reference, low_latency) ==
    << "docker", "run", "--rm",
       "-v", Render(bind) \o ":/work",
       img,
       "run",
       "-i", "/work/" \o Name(ps[1]),
       "-o", "/work/" \o Name(ps[2]),
       "--qv", "none" >>
    \o LowLatencyFlag(low_latency)
    \o ReferenceFlag(ps, reference)

\* A compress command line that always asks for low latency.
CompressCmdAlwaysLowLatency(img, ps, bind, reference, low_latency) ==
    << "docker", "run", "--rm",
       "-v", Render(bind) \o ":/work",
       img,
       "run",
       "-i", "/work/" \o Name(ps[1]),
       "-o", "/work/" \o Name(ps[2]),
       "--qv", "none",
       "-f" >>
    \o << "--low-latency" >>
    \o ReferenceFlag(ps, reference)

\* A compress command line that mounts the working directory of the caller.
CompressCmdMountingCwd(img, ps, bind, reference, low_latency) ==
    << "docker", "run", "--rm",
       "-v", Render(Cwd) \o ":/work",
       img,
       "run",
       "-i", "/work/" \o Name(ps[1]),
       "-o", "/work/" \o Name(ps[2]),
       "--qv", "none",
       "-f" >>
    \o LowLatencyFlag(low_latency)
    \o ReferenceFlag(ps, reference)

\* The command line built by compress.
CompressCmd(img, ps, bind, reference, low_latency) ==
    << "docker", "run", "--rm",
       "-v", Render(bind) \o ":/work",
       img,
       "run",
       "-i", "/work/" \o Name(ps[1]),
       "-o", "/work/" \o Name(ps[2]),
       "--qv", "none",
       "-f" >>
    \o LowLatencyFlag(low_latency)
    \o ReferenceFlag(ps, reference)

\* A decompress command line that never passes the reference.
DecompressCmdWithoutReference(img, ps, bind, reference) ==
    << "docker", "run", "--rm",
       "-v", Render(bind) \o ":/work",
       img,
       "run",
       "-i", "/work/" \o Name(ps[1]),
       "-o", "/work/" \o Name(ps[2]),
       "-f" >>

\* The command line built by decompress.
DecompressCmd(img, ps, bind, reference) ==
    << "docker", "run", "--rm",
       "-v", Render(bind) \o ":/work",
       img,
       "run",
       "-i", "/work/" \o Name(ps[1]),
       "-o", "/work/" \o Name(ps[2]),
       "-f" >>
    \o ReferenceFlag(ps, reference)

\* What version returns of _run_command's outcome: the trimmed text.
VersionResult(r) ==
    IF Kind(r) = "return" THEN Returns(Strip(Value(r))) ELSE r

\* The command line built by version.
VersionCmd(img) == << "docker", "run", "--rm", img, "help" >>

FailedMessage(stderr) == << "Genie Docker failed:\n" >> \o stderr

\* _run_command without the search of the error stream.
RunCommandTrustingExitStatus(exit, stdout, stderr) ==
    IF exit # 0
    THEN Raises("RuntimeError", FailedMessage(stderr))
    ELSE Returns(stdout)

\* _run_command that does not check the exit status (check=False).
RunCommandIgnoringExitStatus(exit, stdout, stderr) ==
    IF stderr # <<>> /\ Contains(ERROR, stderr)
    THEN Raises("RuntimeError", FailedMessage(stderr))
    ELSE Returns(stdout)

\* _run_command that trims the captured output.
RunCommandTrimming(exit, stdout, stderr) ==
    IF exit # 0
    THEN Raises("RuntimeError", FailedMessage(stderr))
    ELSE IF stderr # <<>> /\ Contains(ERROR, stderr)
         THEN Raises("RuntimeError", FailedMessage(stderr))
         ELSE Returns(Strip(stdout))

\* _run_command(cmd), once the process has exited with the given status and
\* captured streams.
RunCommand(exit, stdout, stderr) ==
    IF exit # 0
    THEN Raises("RuntimeError", FailedMessage(stderr))
    ELSE IF stderr # <<>> /\ Contains(ERROR, stderr)
         THEN Raises("RuntimeError", FailedMessage(stderr))
         ELSE Returns(stdout)

(***************************************************************************)
(* State machine                                                           *)
(***************************************************************************)
Init ==
    /\ pc = "idle"
    /\ call = NoCall
    /\ created = <<>>
    /\ backendCalls = <<>>
    /\ args = NoArgs
    /\ selfImage = ""
    /\ paths = <<>>
    /\ bind_dir = <<>>
    /\ invoked = <<>>
    /\ made = {}
    /\ proc = NoProc
    /\ backendResult = NoResult
    /\ result = NoResult
    /\ dirs = InitialDirs
    /\ image \in Images
    /\ raisedBefore = FALSE
    /\ calls = 0

\* The body shared by the public compress and decompress: select the runner,
\* then call its method with the caller's arguments.
Delegate(c, a) ==
    LET r == GetRunner(Mode(c)) IN
    /\ pc = "idle"
    /\ calls < MaxCalls
    /\ calls' = calls + 1
    /\ call' = c
    /\ IF RunnerKind(r) = "none"
       THEN /\ pc' = "done"
            /\ result' = RunnerError(r)
            /\ created' = <<>>
            /\ backendCalls' = <<>>
            /\ args' = NoArgs
            /\ selfImage' = ""
       ELSE /\ pc' = IF RunnerKind(r) = "docker" THEN "resolve" ELSE "native"
            /\ result' = NoResult
            /\ created' = << RunnerKind(r) >>
            /\ backendCalls' = << a >>
            /\ args' = a
            /\ selfImage' = IF RunnerKind(r) = "docker" THEN DefaultImage ELSE ""
    /\ UNCHANGED <<paths, bind_dir, invoked, made, proc, backendResult, dirs,
                   image, raisedBefore>>

\* api.compress(input_path, output_path, reference_path=None,
\*              mode=DEFAULT_MODE, low_latency=False)
ApiCompress ==
    \E input_path \in PathArgs, output_path \in PathArgs,
       reference_path \in RefArgs, modeGiven \in BOOLEAN,
       low_latency \in BOOLEAN :
      \E m \in (IF modeGiven THEN Modes ELSE {DEFAULT_MODE}) :
        Delegate(Call("api", "compress", input_path, output_path,
                      reference_path, low_latency, modeGiven, m),
                 CompressArgs(input_path, output_path, reference_path,
                              low_latency))

\* api.decompress(input_path, output_path, reference_path=None,
\*                mode=DEFAULT_MODE)
ApiDecompress ==
    \E input_path \in PathArgs, output_path \in PathArgs,
       reference_path \in RefArgs, modeGiven \in BOOLEAN :
      \E m \in (IF modeGiven THEN Modes ELSE {DEFAULT_MODE}) :
        Delegate(Call("api", "decompress", input_path, output_path,
                      reference_path, FALSE, modeGiven, m),
                 DecompressArgs(input_path, output_path, reference_path))

\* api._get_runner(mode), called on its own.
ApiGetRunner ==
    \E m \in Modes :
      LET r == GetRunner(m) IN
      /\ pc = "idle"
      /\ calls < MaxCalls
      /\ calls' = calls + 1
      /\ call' = Call("selector", "_get_runner", None, None, None, FALSE,
                       TRUE, m)
      /\ pc' = "done"
      /\ IF RunnerKind(r) = "none"
         THEN /\ result' = RunnerError(r)
              /\ created' = <<>>
         ELSE /\ result' = Returns(<< RunnerKind(r) >>)
              /\ created' = << RunnerKind(r) >>
      /\ UNCHANGED <<backendCalls, args, selfImage, paths, bind_dir, invoked,
                     made, proc, backendResult, dirs, image,
                   raisedBefore>>

\* A method of the long-lived DockerGenieRunner is entered.
EnterRunner(a) ==
    /\ pc = "idle"
    /\ calls < MaxCalls
    /\ calls' = calls + 1
    /\ call' = Call("runner", Method(a), InputFile(a), OutputFile(a),
                     Reference(a), LowLatency(a), FALSE, "")
    /\ args' = a
    /\ selfImage' = image
    /\ result' = NoResult

\* DockerGenieRunner.compress(input_file, output_file, reference=None,
\*                            low_latency=False), called on the runner itself.
RunnerCompress ==
    \E input_file \in PathArgs, output_file \in PathArgs,
       reference \in RefArgs, low_latency \in BOOLEAN :
      /\ EnterRunner(CompressArgs(input_file, output_file, reference,
                                  low_latency))
      /\ pc' = "resolve"
      /\ UNCHANGED <<created, backendCalls, paths, bind_dir, invoked, made,
                     proc, backendResult, dirs, image, raisedBefore>>

\* DockerGenieRunner.decompress(input_file, output_file, reference=None),
\* called on the runner itself.
RunnerDecompress ==
    \E input_file \in PathArgs, output_file \in PathArgs,
       reference \in RefArgs :
      /\ EnterRunner(DecompressArgs(input_file, output_file, reference))
      /\ pc' = "resolve"
      /\ UNCHANGED <<created, backendCalls, paths, bind_dir, invoked, made,
                     proc, backendResult, dirs, image, raisedBefore>>

\* DockerGenieRunner.version(): builds the help command and runs it.
RunnerVersion ==
    /\ EnterRunner(VersionArgs)
    /\ pc' = "running"
    /\ invoked' = << VersionCmd(image) >>
    /\ UNCHANGED <<created, backendCalls, paths, bind_dir, made, proc,
                   backendResult, dirs, image, raisedBefore>>

\* The runner method ends with outcome r, and with it the call.
Finish(r) ==
    /\ pc' = "done"
    /\ backendResult' = r
    /\ result' = IF Entry(call) = "api" THEN ApiReturn(r) ELSE r

\* paths, bind_dir = self._resolve_paths(input_file, output_file, reference)
ResolveStep ==
    LET r == ResolvePaths(<< InputFile(args), OutputFile(args),
                             Reference(args) >>) IN
    /\ pc = "resolve"
    /\ IF Ok(r)
       THEN /\ pc' = "mkdir"
            /\ paths' = Resolved(r)
            /\ bind_dir' = CHOOSE d \in ParentDirs(r) : TRUE
            /\ UNCHANGED <<backendResult, result>>
       ELSE /\ Finish(Raises("ValueError", PathLayoutMessage))
            /\ UNCHANGED <<paths, bind_dir>>
    /\ UNCHANGED <<call, created, backendCalls, args, selfImage, invoked,
                   made, proc, dirs, image, raisedBefore, calls>>

\* output_path.parent.mkdir(parents=True, exist_ok=True)
MkdirStep ==
    /\ pc = "mkdir"
    /\ pc' = "build"
    /\ dirs' = MkdirParents(Parent(paths[2]), dirs)
    /\ made' = dirs' \ dirs
    /\ UNCHANGED <<call, created, backendCalls, args, selfImage, paths,
                   bind_dir, invoked, proc, backendResult, result, image,
                   raisedBefore, calls>>

\* cmd = [...]; return self._run_command(cmd), up to the call of subprocess.run
InvokeStep ==
    /\ pc = "build"
    /\ pc' = "running"
    /\ invoked' = Append(invoked,
          IF Method(args) = "compress"
          THEN CompressCmd(selfImage, paths, bind_dir, Reference(args),
                           LowLatency(args))
          ELSE DecompressCmd(selfImage, paths, bind_dir, Reference(args)))
    /\ UNCHANGED <<call, created, backendCalls, args, selfImage, paths,
                   bind_dir, made, proc, backendResult, result, dirs, image,
                   raisedBefore, calls>>

\* A runner that switches to the local image once a process has failed.
ProcessExitFallingBackToLocalImage ==
    \E exit \in ExitCodes, stdout \in Stdouts, stderr \in Stderrs :
      LET r == RunCommand(exit, stdout, stderr) IN
      /\ pc = "running"
      /\ proc' = << exit, stdout, stderr >>
      /\ Finish(IF Method(args) = "version" THEN VersionResult(r) ELSE r)
      /\ image' = IF Kind(r) = "return" THEN image ELSE "genie:local"
      /\ UNCHANGED <<call, created, backendCalls, args, selfImage, paths,
                     bind_dir, invoked, made, dirs, raisedBefore, calls>>

\* A _run_command that runs the command a second time when the first run
\* fails.
ProcessExitRetrying ==
    \E exit \in ExitCodes, stdout \in Stdouts, stderr \in Stderrs :
      LET r == RunCommand(exit, stdout, stderr) IN
      /\ pc = "running"
      /\ proc' = << exit, stdout, stderr >>
      /\ IF Kind(r) # "return" /\ Len(invoked) < 2
         THEN /\ invoked' = Append(invoked, invoked[Len(invoked)])
              /\ UNCHANGED <<pc, backendResult, result>>
         ELSE /\ Finish(IF Method(args) = "version" THEN VersionResult(r)
                        ELSE r)
              /\ UNCHANGED invoked
      /\ UNCHANGED <<call, created, backendCalls, args, selfImage, paths,
                     bind_dir, made, dirs, image, raisedBefore, calls>>

\* The external process exits; _run_command returns or raises, and so does
\* the method that called it (version trims what it returns).
ProcessExit ==
    \E exit \in ExitCodes, stdout \in Stdouts, stderr \in Stderrs :
      LET r == RunCommand(exit, stdout, stderr) IN
      /\ pc = "running"
      /\ proc' = << exit, stdout, stderr >>
      /\ Finish(IF Method(args) = "version" THEN VersionResult(r) ELSE r)
      /\ UNCHANGED <<call, created, backendCalls, args, selfImage, paths,
                     bind_dir, invoked, made, dirs, image,
                     raisedBefore, calls>>

\* subprocess.run cannot start the docker executable: the OSError is not a
\* CalledProcessError and propagates.
ProcessSpawnFails ==
    /\ pc = "running"
    /\ Finish(Raises("FileNotFoundError", << "docker" >>))
    /\ UNCHANGED <<call, created, backendCalls, args, selfImage, paths,
                   bind_dir, invoked, made, proc, dirs, image,
                   raisedBefore, calls>>

\* The native backend's method returns a text or raises.
NativeFinish ==
    /\ pc = "native"
    /\ \/ \E text \in Stdouts : Finish(Returns(text))
       \/ \E text \in Stderrs : Finish(Raises("RuntimeError", text))
    /\ UNCHANGED <<call, created, backendCalls, args, selfImage, paths,
                   bind_dir, invoked, made, proc, dirs, image,
                   raisedBefore, calls>>

\* The caller has the outcome; the frames and locals of the call are gone.
CallEnds ==
    /\ pc = "done"
    /\ pc' = "idle"
    /\ call' = NoCall
    /\ created' = <<>>
    /\ backendCalls' = <<>>
    /\ args' = NoArgs
    /\ selfImage' = ""
    /\ paths' = <<>>
    /\ bind_dir' = <<>>
    /\ invoked' = <<>>
    /\ made' = {}
    /\ proc' = NoProc
    /\ backendResult' = NoResult
    /\ result' = NoResult
    /\ raisedBefore' = (raisedBefore \/ Kind(result) \notin {"return", "none"})
    /\ UNCHANGED <<dirs, image, calls>>

Next ==
    \/ ApiCompress
    \/ ApiDecompress
    \/ ApiGetRunner
    \/ RunnerCompress
    \/ RunnerDecompress
    \/ RunnerVersion
    \/ ResolveStep
    \/ MkdirStep
    \/ InvokeStep
    \/ ProcessExit
    \/ ProcessSpawnFails
    \/ NativeFinish
    \/ CallEnds

Spec == Init /\ [][Next]_vars

(***************************************************************************)
(* Properties                                                              *)
(***************************************************************************)
\* The call in progress executes compress or decompress of the containerized
\* runner (entered directly, or through the public function).
InDocker ==
    /\ Method(args) \in {"compress", "decompress"}
    /\ \/ Entry(call) = "runner"
       \/ Entry(call) = "api" /\ created = << "docker" >>

\* The paths supplied to the runner method: input, output, and the reference
\* when one is supplied.
Supplied ==
    { InputFile(args), OutputFile(args) }
    \cup (IF Truthy(Reference(args)) THEN { Reference(args) } ELSE {})

\* The supplied paths lie in one directory.
OneDirectory == Cardinality({ Parent(Resolve(p)) : p \in Supplied }) = 1

\* The number of occurrences of the word w in the command line cmd.
Count(cmd, w) == Cardinality({ k \in 1..Len(cmd) : cmd[k] = w })

\* The text t ends with the text e.
EndsWith(t, e) ==
    /\ Len(e) <= Len(t)
    /\ SubSeq(t, Len(t) - Len(e) + 1, Len(t)) = e

\* C1: a public call or a selector call with a mode other than exactly
\* "native" and "docker" ends at once with a ValueError whose message holds
\* the mode verbatim and names 'native' and 'docker'; no backend is
\* instantiated, no backend method is called and no process is invoked.
C1_UnknownModeRaisesValueError ==
    (Entry(call) \in {"api", "selector"} /\ Mode(call) \notin {"native", "docker"})
    => /\ pc = "done"
       /\ Kind(result) = "ValueError"
       /\ \E i \in 1..Len(Value(result)) : Value(result)[i] = Mode(call)
       /\ \E i \in 1..Len(Value(result)) : Value(result)[i] = "native"
       /\ \E i \in 1..Len(Value(result)) : Value(result)[i] = "docker"
       /\ created = <<>>
       /\ backendCalls = <<>>
       /\ invoked = <<>>
       /\ made = {}

C1_Witness ==
    /\ pc = "done"
    /\ Entry(call) = "api"
    /\ Op(call) = "compress"
    /\ Mode(call) = "Native"
    /\ Kind(result) = "ValueError"

\* C2: a public compress or decompress called without a mode argument uses
\* the native backend: the native runner is instantiated exactly once, its
\* method is called exactly once, and the containerized runner is not used.
C2_DefaultModeIsNative ==
    (Entry(call) = "api" /\ ~ModeGiven(call))
    => /\ created = << "native" >>
       /\ Len(backendCalls) = 1
       /\ invoked = <<>>

\* C3: a public compress or decompress with mode "native" or "docker"
\* instantiates exactly one backend, of the kind the mode names, calls its
\* method exactly once with the caller's input path, output path, reference
\* and low_latency, and returns exactly the text that method returned.
C3_DelegatesUnchanged ==
    (Entry(call) = "api" /\ Mode(call) \in {"native", "docker"})
    => /\ created = << Mode(call) >>
       /\ backendCalls = << << Op(call), InputPath(call), OutputPath(call),
                               ReferencePath(call), LowLatencyArg(call) >> >>
       /\ (pc = "done" /\ Kind(backendResult) = "return"
              => result = backendResult)
       /\ (pc = "done" /\ Kind(result) = "return"
              => result = backendResult)

C3_Witness ==
    /\ pc = "done"
    /\ Entry(call) = "api"
    /\ Op(call) = "compress"
    /\ ModeGiven(call)
    /\ Mode(call) = "native"
    /\ Truthy(ReferencePath(call))
    /\ LowLatencyArg(call)
    /\ result = Returns(<< "o", "k", "\n" >>)

\* C4: when the paths supplied to the containerized compress or decompress
\* do not lie in one directory, the call raises the path-layout ValueError,
\* invokes no process and creates no directory.
C4_PathLayoutErrorBeforeAnyEffect ==
    (InDocker /\ ~OneDirectory)
    => /\ pc \in {"resolve", "done"}
       /\ invoked = <<>>
       /\ made = {}
       /\ proc = NoProc
       /\ (pc = "done" => backendResult = Raises("ValueError", PathLayoutMessage))
       /\ (pc = "done" => result = Raises("ValueError", PathLayoutMessage))

C4_Witness ==
    /\ pc = "done"
    /\ InDocker
    /\ Parent(Resolve(InputFile(args))) = Parent(Resolve(OutputFile(args)))
    /\ Truthy(Reference(args))
    /\ Parent(Resolve(Reference(args))) # Parent(Resolve(InputFile(args)))
    /\ Kind(result) = "ValueError"

\* C5: a command line invoked by the containerized compress holds
\* --low-latency once when low_latency is true and not at all when it is
\* false; a command line invoked by decompress never holds it.
C5_LowLatencyFlagIffRequested ==
    \A i \in 1..Len(invoked) :
        /\ Method(args) = "compress"
             => Count(invoked[i], "--low-latency")
                  = (IF LowLatency(args) THEN 1 ELSE 0)
        /\ Method(args) = "decompress"
             => Count(invoked[i], "--low-latency") = 0

C5_Witness ==
    /\ pc = "running"
    /\ Method(args) = "compress"
    /\ LowLatency(args)
    /\ Len(invoked) = 1
    /\ Count(invoked[1], "--low-latency") = 1

\* C6: a command line invoked by the containerized compress or decompress
\* holds -r, followed by /work/<file name of the reference>, when a
\* reference is supplied, and holds no -r when none is.
C6_ReferenceFlagIffSupplied ==
    \A i \in 1..Len(invoked) :
        Method(args) \in {"compress", "decompress"}
        => IF Truthy(Reference(args))
           THEN /\ Count(invoked[i], "-r") = 1
                /\ \E k \in 1..(Len(invoked[i]) - 1) :
                      /\ invoked[i][k] = "-r"
                      /\ invoked[i][k + 1]
                           = "/work/" \o Name(Resolve(Reference(args)))
           ELSE Count(invoked[i], "-r") = 0

C6_Witness ==
    /\ pc = "running"
    /\ Method(args) = "decompress"
    /\ Truthy(Reference(args))
    /\ Len(invoked) = 1
    /\ Count(invoked[1], "-r") = 1

\* C7: when the process run by the containerized runner exits with status 0
\* and its error stream holds "ERROR", the call returns nothing: it raises a
\* RuntimeError whose message ends with the error stream, whatever the
\* standard output was.
C7_ErrorMarkerWithZeroExitRaises ==
    (pc = "done" /\ ExitStatus(proc) = 0 /\ Contains(ERROR, Stderr(proc)))
    => /\ Kind(result) = "RuntimeError"
       /\ EndsWith(Value(result), Stderr(proc))
       /\ Stderr(proc) # <<>>

C7_Witness ==
    /\ pc = "done"
    /\ Method(args) = "version"
    /\ ExitStatus(proc) = 0
    /\ Stdout(proc) # <<>>
    /\ Contains(ERROR, Stderr(proc))
    /\ Kind(result) = "RuntimeError"

\* C8: when the process run by the containerized runner exits with a
\* non-zero status, the call raises a RuntimeError whose message ends with
\* the error stream, and no standard output is returned.
C8_NonZeroExitRaises ==
    (pc = "done" /\ proc # NoProc /\ ExitStatus(proc) # 0)
    => /\ Kind(result) = "RuntimeError"
       /\ Value(result) = FailedMessage(Stderr(proc))
       /\ EndsWith(Value(result), Stderr(proc))

C8_Witness ==
    /\ pc = "done"
    /\ Method(args) = "compress"
    /\ ExitStatus(proc) = 1
    /\ Stdout(proc) # <<>>
    /\ ~Contains(ERROR, Stderr(proc))
    /\ Kind(result) = "RuntimeError"

\* C9: a containerized compress or decompress whose paths lie in one
\* directory returns exactly the captured standard output when the process
\* exits with status 0 and its error stream holds no "ERROR", and raises in
\* every other outcome.
C9_ReturnsStdoutExactlyOnSuccess ==
    (pc = "done" /\ InDocker /\ OneDirectory)
    => IF ExitStatus(proc) = 0 /\ ~Contains(ERROR, Stderr(proc))
       THEN result = Returns(Stdout(proc))
       ELSE Kind(result) \notin {"return", "none"}

C9_Witness ==
    /\ pc = "done"
    /\ InDocker
    /\ Entry(call) = "api"
    /\ Mode(call) = "docker"
    /\ ExitStatus(proc) = 0
    /\ Stderr(proc) = << "e", "r", "r", "o", "r" >>
    /\ result = Returns(<< " ", "U", "s", "a", "g", "e", "\n" >>)

\* C10: a command line invoked by the containerized compress holds
\* --qv none and -f, whatever the reference and low_latency; a command line
\* invoked by decompress holds -f and no --qv.
C10_FixedOptions ==
    \A i \in 1..Len(invoked) :
        /\ Method(args) = "compress"
             => /\ \E k \in 1..(Len(invoked[i]) - 1) :
                      invoked[i][k] = "--qv" /\ invoked[i][k + 1] = "none"
                /\ Count(invoked[i], "-f") >= 1
        /\ Method(args) = "decompress"
             => /\ Count(invoked[i], "-f") >= 1
                /\ Count(invoked[i], "--qv") = 0

C10_Witness ==
    /\ pc = "running"
    /\ Method(args) = "compress"
    /\ LowLatency(args)
    /\ Truthy(Reference(args))
    /\ Len(invoked) = 1
    /\ Count(invoked[1], "-f") = 1

\* The word that follows the single occurrence of the option opt in cmd.
After(cmd, opt) ==
    cmd[(CHOOSE k \in 1..(Len(cmd) - 1) : cmd[k] = opt) + 1]

\* C11: a command line invoked by the containerized compress or decompress
\* has exactly one -v option, which maps the one parent directory of the
\* resolved paths to /work, and passes the input as -i /work/<input name>
\* and the output as -o /work/<output name>; every supplied path lies in
\* the mounted directory.
C11_SingleBindMountOfSharedParent ==
    \A i \in 1..Len(invoked) :
        Method(args) \in {"compress", "decompress"}
        => /\ Count(invoked[i], "-v") = 1
           /\ Count(invoked[i], "-i") = 1
           /\ Count(invoked[i], "-o") = 1
           /\ After(invoked[i], "-i")
                = "/work/" \o Name(Resolve(InputFile(args)))
           /\ After(invoked[i], "-o")
                = "/work/" \o Name(Resolve(OutputFile(args)))
           /\ \A p \in Supplied :
                After(invoked[i], "-v")
                  = Render(Parent(Resolve(p))) \o ":/work"

C11_Witness ==
    /\ pc = "running"
    /\ Method(args) = "compress"
    /\ Truthy(Reference(args))
    /\ Len(invoked) = 1
    /\ After(invoked[1], "-v") = "/data/new:/work"
    /\ After(invoked[1], "-i") = "/work/in.fastq"
    /\ After(invoked[1], "-o") = "/work/out.mgb"

\* The process run in this call has failed: it exited with a non-zero
\* status, or with "ERROR" in its error stream.
ProcessFailed ==
    /\ proc # NoProc
    /\ \/ ExitStatus(proc) # 0
       \/ Contains(ERROR, Stderr(proc))

\* C12: a call of the containerized compress, decompress or version invokes
\* the external process at most once, and exactly once when its paths lie in
\* one directory (always, for version); when the process fails the call is
\* over with the error, with that one invocation only.
C12_NoRetries ==
    /\ Len(invoked) <= 1
    /\ (pc = "done" /\ Entry(call) = "runner" /\ Method(args) = "version")
         => Len(invoked) = 1
    /\ (pc = "done" /\ InDocker /\ OneDirectory) => Len(invoked) = 1
    /\ (InDocker /\ ~OneDirectory) => invoked = <<>>
    /\ ProcessFailed
         => /\ pc = "done"
            /\ Kind(result) = "RuntimeError"
            /\ Len(invoked) = 1

C12_Witness ==
    /\ pc = "done"
    /\ Method(args) = "decompress"
    /\ InDocker
    /\ ExitStatus(proc) = 1
    /\ Kind(result) = "RuntimeError"
    /\ Len(invoked) = 1

\* C13: in a containerized compress or decompress, no directory is created
\* before the paths are validated and no process is invoked before the
\* output's parent directory is ensured: once the process has been invoked,
\* the paths lie in one directory and the output's parent directory exists,
\* also when it did not exist before the call.
C13_ValidateThenMkdirThenInvoke ==
    /\ (InDocker /\ pc = "resolve") => (made = {} /\ invoked = <<>>)
    /\ (InDocker /\ pc = "mkdir")
         => (OneDirectory /\ made = {} /\ invoked = <<>>)
    /\ (InDocker /\ made # {}) => OneDirectory
    /\ (InDocker /\ invoked # <<>>)
         => /\ OneDirectory
            /\ Parent(Resolve(OutputFile(args))) \in dirs

C13_Witness ==
    /\ pc = "running"
    /\ InDocker
    /\ Len(invoked) = 1
    /\ Parent(Resolve(OutputFile(args))) \in made
    /\ Parent(Resolve(OutputFile(args))) \notin InitialDirs
    /\ Parent(Resolve(OutputFile(args))) \in dirs

\* The command line a runner with image img, in whatever state, builds for
\* the method and parameters a.
FreshCmd(img, a) ==
    LET r    == ResolvePaths(<< InputFile(a), OutputFile(a), Reference(a) >>)
        bind == CHOOSE d \in ParentDirs(r) : TRUE
    IN  IF Method(a) = "compress"
        THEN CompressCmd(img, Resolved(r), bind, Reference(a), LowLatency(a))
        ELSE IF Method(a) = "decompress"
             THEN DecompressCmd(img, Resolved(r), bind, Reference(a))
             ELSE VersionCmd(img)

\* C14: no step of any call changes the runner's image, and the command
\* line a call invokes is the one its method, paths, reference and
\* low_latency give with the runner's image, whatever calls came before and
\* however they ended.
C14_NoStateAcrossCalls ==
    [][ /\ image' = image
        /\ (Entry(call') = "runner" /\ invoked' # <<>>)
             => invoked' = << FreshCmd(image, args') >>
        /\ (Entry(call') = "api" /\ invoked' # <<>>)
             => invoked' = << FreshCmd(DefaultImage, args') >> ]_vars

C14_Witness ==
    /\ pc = "running"
    /\ Entry(call) = "runner"
    /\ Method(args) = "compress"
    /\ raisedBefore
    /\ calls = 2
    /\ image = "genie:local"
    /\ invoked = << FreshCmd("genie:local", args) >>

====
